---- MODULE Spec2Model ----
(***************************************************************************)
(* The code-area widget of the line editor (cli/el/codearea/codearea.go)   *)
(* and the overlay compositor (cli/clitypes/widget.go).                    *)
(*                                                                         *)
(* Strings are sequences of bytes (0..255), as Go strings are; string      *)
(* lengths and the dot are byte counts.  Runes are code points.            *)
(***************************************************************************)
EXTENDS Integers, Sequences, FiniteSets, TLC

(***************************************************************************)
(* Bounds of the model.                                                    *)
(***************************************************************************)
\* A graphic key is delivered, and a paste ended, only while the content is
\* shorter than this.
MaxLen == 2
\* A key is accumulated by a paste only while the accumulator holds fewer
\* bytes than this.
MaxPaste == 2

(***************************************************************************)
(* Byte strings.                                                           *)
(***************************************************************************)
\* s[:n] of Go
Prefix(s, n) == SubSeq(s, 1, n)

\* s[n:] of Go
Suffix(s, n) == SubSeq(s, n + 1, Len(s))

\* strings.HasSuffix(s, a)
HasSuffix(s, a) ==
    /\ Len(s) >= Len(a)
    /\ Suffix(s, Len(s) - Len(a)) = a

(***************************************************************************)
(* UTF-8, as unicode/utf8 computes it.                                     *)
(***************************************************************************)
IsCont(b) == b >= 128 /\ b <= 191

\* utf8.RuneStart(b): b is not a continuation byte
RuneStart(b) == ~IsCont(b)

\* the encoding of U+FFFD, which the encoders write for an invalid rune
RuneErrorBytes == <<239, 191, 189>>

\* string(rune(r)), and the bytes bytes.Buffer.WriteRune(r) appends
EncodeRune(r) ==
    IF r < 0 \/ r > 1114111 \/ (r >= 55296 /\ r <= 57343) THEN RuneErrorBytes
    ELSE IF r < 128 THEN <<r>>
    ELSE IF r < 2048 THEN <<192 + (r \div 64), 128 + (r % 64)>>
    ELSE IF r < 65536 THEN
        <<224 + (r \div 4096), 128 + ((r \div 64) % 64), 128 + (r % 64)>>
    ELSE <<240 + (r \div 262144), 128 + ((r \div 4096) % 64),
           128 + ((r \div 64) % 64), 128 + (r % 64)>>

\* the size utf8.DecodeRuneInString(s) returns: the length of the first
\* rune's encoding, 1 for an invalid or short encoding, 0 for the empty string
DecodeRuneSize(s) ==
    IF Len(s) = 0 THEN 0
    ELSE LET b0 == s[1]
             lo2 == IF b0 = 224 THEN 160 ELSE IF b0 = 240 THEN 144 ELSE 128
             hi2 == IF b0 = 237 THEN 159 ELSE IF b0 = 244 THEN 143 ELSE 191
             need == IF b0 < 128 THEN 1
                     ELSE IF b0 >= 194 /\ b0 <= 223 THEN 2
                     ELSE IF b0 >= 224 /\ b0 <= 239 THEN 3
                     ELSE IF b0 >= 240 /\ b0 <= 244 THEN 4
                     ELSE 0
         IN IF need = 0 \/ Len(s) < need THEN 1
            ELSE IF need = 1 THEN 1
            ELSE IF ~(s[2] >= lo2 /\ s[2] <= hi2) THEN 1
            ELSE IF \E i \in 3..need : ~IsCont(s[i]) THEN 1
            ELSE need

\* the size utf8.DecodeLastRuneInString(s) returns: the length of the last
\* rune's encoding, 1 for an invalid encoding, 0 for the empty string
DecodeLastRuneSize(s) ==
    LET end == Len(s)
    IN IF end = 0 THEN 0
       ELSE IF s[end] < 128 THEN 1
       ELSE LET lim == IF end - 4 < 0 THEN 0 ELSE end - 4
                \* Go's 0-based start: the nearest rune start at or after lim
                \* and before end - 1, else lim - 1, then clamped to 0
                cands == {i \in lim..(end - 2) : RuneStart(s[i + 1])}
                found == IF cands = {} THEN lim - 1
                         ELSE CHOOSE i \in cands : \A j \in cands : j <= i
                start == IF found < 0 THEN 0 ELSE found
                size == DecodeRuneSize(SubSeq(s, start + 1, end))
            IN IF start + size # end THEN 1 ELSE size

\* unicode.IsGraphic(r) on Latin-1, the range the keys of the model come from:
\* letters, marks, numbers, punctuation, symbols and spaces (U+00AD, the soft
\* hyphen, is a format character)
IsGraphic(r) ==
    \/ r >= 32 /\ r <= 126
    \/ r >= 160 /\ r <= 255 /\ r # 173

(***************************************************************************)
(* Keys and events (term.Event, ui.Key).                                   *)
(***************************************************************************)
\* ui.K(r): the unmodified key of rune r
K(r) == [Rune |-> r, Mod |-> 0]

\* '\n', the rune of the Enter key
Enter == 10

\* ui.Backspace
Backspace == 127

\* The keys the model delivers: 'e', 'x', U+00E9 (two bytes in UTF-8), Enter,
\* Backspace, Tab (a codepoint that is not graphic), a named function key
\* (a negative rune) and a modified Enter.
Keys ==
    {K(101), K(120), K(233), K(Enter), K(Backspace), K(9),
     [Rune |-> -1, Mod |-> 0], [Rune |-> Enter, Mod |-> 1]}

KeyEvent(k) == [start |-> FALSE, type |-> "KeyEvent", key |-> k]

PasteSetting(b) == [start |-> b, type |-> "PasteSetting", key |-> K(0)]

\* any other term.Event (a mouse event, say)
OtherEvent == [start |-> FALSE, type |-> "Other", key |-> K(0)]

(***************************************************************************)
(* CodeBuffer and State.                                                   *)
(***************************************************************************)
\* CodeBuffer{}
ZeroCodeBuffer == [Content |-> <<>>, Dot |-> 0]

\* CodeBuffer.InsertAtDot(text)
InsertAtDot(c, text) ==
    [Content |-> Prefix(c.Content, c.Dot) \o text \o Suffix(c.Content, c.Dot),
     Dot |-> c.Dot + Len(text)]

\* parse.Quote(text): the text wrapped in single quotes
Quote(text) == <<39>> \o text \o <<39>>

(***************************************************************************)
(* The widget.  A widget value w holds the fields of the struct:           *)
(* State, inserts, lastCodeBuffer, pasting, pasteBuffer.  A handler        *)
(* returns the widget after the call, the value returned, and the          *)
(* arguments of the OnSubmit calls it made, in order.                      *)
(***************************************************************************)
Result(w, ret, submitted) == [w |-> w, ret |-> ret, submitted |-> submitted]

\* Submit, were it to pass only the content before the dot
SubmitBeforeDot(w) ==
    <<Prefix(w.State.CodeBuffer.Content, w.State.CodeBuffer.Dot)>>

\* Submit: OnSubmit(w.State.CodeBuffer.Content), under the read lock
Submit(w) == <<w.State.CodeBuffer.Content>>

\* removeLastRune, were it to remove one byte
removeLastByte(s) ==
    LET c == s.CodeBuffer
        chop == IF c.Dot = 0 THEN 0 ELSE 1
    IN [s EXCEPT !.CodeBuffer =
           [Content |-> Prefix(c.Content, c.Dot - chop) \o Suffix(c.Content, c.Dot),
            Dot |-> c.Dot - chop]]

\* the mutator of the Backspace case: remove the last rune before the dot
removeLastRune(s) ==
    LET c == s.CodeBuffer
        chop == DecodeLastRuneSize(Prefix(c.Content, c.Dot))
    IN [s EXCEPT !.CodeBuffer =
           [Content |-> Prefix(c.Content, c.Dot - chop) \o Suffix(c.Content, c.Dot),
            Dot |-> c.Dot - chop]]

\* The functions passed to MutateCodeAreaState, as values: the two the widget
\* passes (insert a text at the dot, remove the last rune before the dot) and
\* three a caller may pass (clear the buffer, move the dot to the start, move
\* it to the end).
Mutator(name, text) == [text |-> text, name |-> name]

Mutators == {Mutator("clear", <<>>), Mutator("home", <<>>), Mutator("end", <<>>)}

\* f(&w.State)
ApplyMutator(f, s) ==
    IF f.name = "InsertAtDot"
    THEN [s EXCEPT !.CodeBuffer = InsertAtDot(@, f.text)]
    ELSE IF f.name = "removeLastRune" THEN removeLastRune(s)
    ELSE IF f.name = "clear" THEN [s EXCEPT !.CodeBuffer = ZeroCodeBuffer]
    ELSE IF f.name = "home" THEN [s EXCEPT !.CodeBuffer.Dot = 0]
    ELSE [s EXCEPT !.CodeBuffer.Dot = Len(s.CodeBuffer.Content)]

\* MutateCodeAreaState(f): f applied to the State, under the write lock
MutateCodeAreaState(w, f) == [w EXCEPT !.State = ApplyMutator(f, w.State)]

\* CopyState(): a copy of the State, under the read lock
CopyState(w) == w.State

resetInserts(w) ==
    [w EXCEPT !.inserts = <<>>, !.lastCodeBuffer = ZeroCodeBuffer]

\* handlePasteSetting, were it to quote whatever QuotePaste returns
handlePasteSettingAlwaysQuote(w, start, quotePaste) ==
    LET w1 == resetInserts(w)
        w2 == MutateCodeAreaState(w1,
                  Mutator("InsertAtDot", Quote(w1.pasteBuffer)))
    IN IF start
       THEN Result([w1 EXCEPT !.pasting = TRUE], TRUE, <<>>)
       ELSE Result([w2 EXCEPT !.pasting = FALSE, !.pasteBuffer = <<>>],
                   TRUE, <<>>)

\* handlePasteSetting, were the text inserted at the end of a paste to count
\* as typed
handlePasteSettingTracksText(w, start, quotePaste) ==
    LET w1 == resetInserts(w)
        text == IF quotePaste THEN Quote(w1.pasteBuffer) ELSE w1.pasteBuffer
        w2 == MutateCodeAreaState(w1, Mutator("InsertAtDot", text))
    IN IF start
       THEN Result([w1 EXCEPT !.pasting = TRUE], TRUE, <<>>)
       ELSE Result([w2 EXCEPT !.inserts = text,
                              !.lastCodeBuffer = w2.State.CodeBuffer,
                              !.pasting = FALSE, !.pasteBuffer = <<>>],
                   TRUE, <<>>)

\* handlePasteSetting, were it to quote only a text that is not empty
handlePasteSettingQuotesNonEmpty(w, start, quotePaste) ==
    LET w1 == resetInserts(w)
        text == IF quotePaste /\ w1.pasteBuffer # <<>>
                THEN Quote(w1.pasteBuffer) ELSE w1.pasteBuffer
        w2 == MutateCodeAreaState(w1, Mutator("InsertAtDot", text))
    IN IF start
       THEN Result([w1 EXCEPT !.pasting = TRUE], TRUE, <<>>)
       ELSE Result([w2 EXCEPT !.pasting = FALSE, !.pasteBuffer = <<>>],
                   TRUE, <<>>)

\* handlePasteSetting(start); quotePaste is what w.QuotePaste() returns
handlePasteSetting(w, start, quotePaste) ==
    LET w1 == resetInserts(w)
        text == IF quotePaste THEN Quote(w1.pasteBuffer) ELSE w1.pasteBuffer
        w2 == MutateCodeAreaState(w1, Mutator("InsertAtDot", text))
    IN IF start
       THEN Result([w1 EXCEPT !.pasting = TRUE], TRUE, <<>>)
       ELSE Result([w2 EXCEPT !.pasting = FALSE, !.pasteBuffer = <<>>],
                   TRUE, <<>>)

isFuncKey(key) == key.Mod # 0 \/ key.Rune < 0

\* pasteKey, were it to write the rune of a function key too
pasteKeyAll(w, key) ==
    [w EXCEPT !.pasteBuffer = @ \o EncodeRune(key.Rune)]

\* handleKeyEvent while pasting
pasteKey(w, key) ==
    IF isFuncKey(key) THEN w
    ELSE [w EXCEPT !.pasteBuffer = @ \o EncodeRune(key.Rune)]

\* visitAbbr, were it to compare the lengths with >=
visitAbbrLastWins(acc, inserts, pair) ==
    IF HasSuffix(inserts, pair[1]) /\ Len(pair[1]) >= Len(acc[1])
    THEN pair ELSE acc

\* one call of the visitor the widget passes to w.Abbreviations: acc is
\* <<abbr, full>> so far, pair the <<a, f>> visited
visitAbbr(acc, inserts, pair) ==
    IF HasSuffix(inserts, pair[1]) /\ Len(pair[1]) > Len(acc[1])
    THEN pair ELSE acc

\* w.Abbreviations(visitor): the visitor called on the first n pairs of the
\* enumeration abbrs, starting from abbr = full = ""
RECURSIVE visitAbbrs(_, _, _)
visitAbbrs(abbrs, inserts, n) ==
    IF n = 0 THEN <<<<>>, <<>>>>
    ELSE visitAbbr(visitAbbrs(abbrs, inserts, n - 1), inserts, abbrs[n])

\* expandAbbr, were it to leave the insertion tracking as it is
expandAbbrNoReset(w, abbr, full) ==
    LET c == w.State.CodeBuffer
    IN [w EXCEPT !.State.CodeBuffer =
            [Content |-> Prefix(c.Content, c.Dot - Len(abbr)) \o full
                          \o Suffix(c.Content, c.Dot),
             Dot |-> c.Dot - Len(abbr) + Len(full)],
                 !.lastCodeBuffer =
            [Content |-> Prefix(c.Content, c.Dot - Len(abbr)) \o full
                          \o Suffix(c.Content, c.Dot),
             Dot |-> c.Dot - Len(abbr) + Len(full)]]

\* the replacement of the abbreviation before the dot by its expansion
expandAbbr(w, abbr, full) ==
    LET c == w.State.CodeBuffer
    IN resetInserts(
         [w EXCEPT !.State.CodeBuffer =
            [Content |-> Prefix(c.Content, c.Dot - Len(abbr)) \o full
                          \o Suffix(c.Content, c.Dot),
             Dot |-> c.Dot - Len(abbr) + Len(full)]])

\* insertKey, were the dot to advance by one per rune, not by the length of
\* its encoding
insertKeyOneByte(w, key, abbrs) ==
    LET w1 == IF w.lastCodeBuffer # w.State.CodeBuffer
              THEN resetInserts(w) ELSE w
        s == EncodeRune(key.Rune)
        c2 == [InsertAtDot(w1.State.CodeBuffer, s)
                 EXCEPT !.Dot = w1.State.CodeBuffer.Dot + 1]
        w2 == [w1 EXCEPT !.State.CodeBuffer = c2,
                         !.inserts = @ \o s,
                         !.lastCodeBuffer = c2]
        chosen == visitAbbrs(abbrs, w2.inserts, Len(abbrs))
    IN IF Len(chosen[1]) > 0 /\ Len(chosen[1]) <= c2.Dot
       THEN expandAbbr(w2, chosen[1], chosen[2])
       ELSE w2

\* the insertion, were it not to compare the buffer with lastCodeBuffer
insertRuneNoReset(w, key) ==
    LET s == EncodeRune(key.Rune)
        c2 == InsertAtDot(w.State.CodeBuffer, s)
    IN [w EXCEPT !.State.CodeBuffer = c2,
                 !.inserts = @ \o s,
                 !.lastCodeBuffer = c2]

\* the insertion of the default case of handleKeyEvent, before the
\* abbreviations are looked at
insertRune(w, key) ==
    LET w1 == IF w.lastCodeBuffer # w.State.CodeBuffer
              THEN resetInserts(w) ELSE w
        s == EncodeRune(key.Rune)
        c2 == InsertAtDot(w1.State.CodeBuffer, s)
    IN [w1 EXCEPT !.State.CodeBuffer = c2,
                  !.inserts = @ \o s,
                  !.lastCodeBuffer = c2]

\* the default case of handleKeyEvent for a graphic key, under the write lock
insertKey(w, key, abbrs) ==
    LET w2 == insertRune(w, key)
        chosen == visitAbbrs(abbrs, w2.inserts, Len(abbrs))
    IN IF Len(chosen[1]) > 0
       THEN expandAbbr(w2, chosen[1], chosen[2])
       ELSE w2

\* handleKeyEvent, were it to take every key of rune '\n' for Enter,
\* modified or not
handleKeyEventAnyEnter(w, key, abbrs) ==
    IF w.pasting THEN Result(pasteKey(w, key), TRUE, <<>>)
    ELSE IF key.Rune = Enter
         THEN Result(resetInserts(w), TRUE, Submit(resetInserts(w)))
    ELSE IF key = K(Backspace)
         THEN Result(MutateCodeAreaState(resetInserts(w),
                                         Mutator("removeLastRune", <<>>)),
                     TRUE, <<>>)
    ELSE IF isFuncKey(key) \/ ~IsGraphic(key.Rune)
         THEN Result(resetInserts(w), FALSE, <<>>)
    ELSE Result(insertKey(w, key, abbrs), TRUE, <<>>)

\* handleKeyEvent, were a function key or a codepoint that is not graphic to
\* leave the insertion tracking as it is
handleKeyEventKeepsInserts(w, key, abbrs) ==
    IF w.pasting THEN Result(pasteKey(w, key), TRUE, <<>>)
    ELSE IF key = K(Enter)
         THEN Result(resetInserts(w), TRUE, Submit(resetInserts(w)))
    ELSE IF key = K(Backspace)
         THEN Result(MutateCodeAreaState(resetInserts(w),
                                         Mutator("removeLastRune", <<>>)),
                     TRUE, <<>>)
    ELSE IF isFuncKey(key) \/ ~IsGraphic(key.Rune)
         THEN Result(w, FALSE, <<>>)
    ELSE Result(insertKey(w, key, abbrs), TRUE, <<>>)

handleKeyEvent(w, key, abbrs) ==
    IF w.pasting THEN Result(pasteKey(w, key), TRUE, <<>>)
    ELSE IF key = K(Enter)
         THEN Result(resetInserts(w), TRUE, Submit(resetInserts(w)))
    ELSE IF key = K(Backspace)
         THEN Result(MutateCodeAreaState(resetInserts(w),
                                         Mutator("removeLastRune", <<>>)),
                     TRUE, <<>>)
    ELSE IF isFuncKey(key) \/ ~IsGraphic(key.Rune)
         THEN Result(resetInserts(w), FALSE, <<>>)
    ELSE Result(insertKey(w, key, abbrs), TRUE, <<>>)

\* the dispatch of Handle once the overlay handler has declined the event
dispatch(w, event, quotePaste, abbrs) ==
    IF event.type = "PasteSetting"
    THEN handlePasteSetting(w, event.start, quotePaste)
    ELSE IF event.type = "KeyEvent"
    THEN handleKeyEvent(w, event.key, abbrs)
    ELSE Result(w, FALSE, <<>>)

\* Handle, were it to reset the insertion tracking before asking the overlay
HandleResetFirst(w, event, overlayRet, quotePaste, abbrs) ==
    IF overlayRet THEN Result(resetInserts(w), TRUE, <<>>)
    ELSE dispatch(w, event, quotePaste, abbrs)

\* widget.Handle(event); overlayRet is what w.OverlayHandler.Handle(event)
\* returns
Handle(w, event, overlayRet, quotePaste, abbrs) ==
    IF overlayRet THEN Result(w, TRUE, <<>>)
    ELSE dispatch(w, event, quotePaste, abbrs)

(***************************************************************************)
(* The compositor: AddOverlayHandler(base, overlay).Handle(event), with    *)
(* the code-area widget as base.  overlayRet is what overlay.Handle(event) *)
(* returns.  baseCalls counts the calls of base.Handle.                    *)
(***************************************************************************)
\* the composite's Handle, were it to call base.Handle whatever the overlay
\* returns (| for ||)
widgetWithOverlayHandlerHandleBoth(w, event, overlayRet, baseOverlayRet, quotePaste, abbrs) ==
    [res |-> [Handle(w, event, baseOverlayRet, quotePaste, abbrs)
                EXCEPT !.ret = @ \/ overlayRet],
     baseCalls |-> 1]

widgetWithOverlayHandlerHandle(w, event, overlayRet, baseOverlayRet, quotePaste, abbrs) ==
    IF overlayRet
    THEN [res |-> Result(w, TRUE, <<>>), baseCalls |-> 0]
    ELSE [res |-> Handle(w, event, baseOverlayRet, quotePaste, abbrs),
          baseCalls |-> 1]

\* AddOverlayHandler(AddOverlayHandler(base, inner), outer).Handle, were the
\* inner overlay asked first
nestedOverlayHandleInnerFirst(w, event, outerRet, overlayRet, baseOverlayRet, quotePaste, abbrs) ==
    IF overlayRet
    THEN [res |-> Result(w, TRUE, <<>>), baseCalls |-> 0, overlayCalls |-> 1,
          outerCalls |-> 0]
    ELSE IF outerRet
    THEN [res |-> Result(w, TRUE, <<>>), baseCalls |-> 0, overlayCalls |-> 1,
          outerCalls |-> 1]
    ELSE [res |-> Handle(w, event, baseOverlayRet, quotePaste, abbrs),
          baseCalls |-> 1, overlayCalls |-> 1, outerCalls |-> 1]

\* AddOverlayHandler(AddOverlayHandler(base, inner), outer).Handle(event):
\* the Handle of the compositor with the composite of the widget and the
\* inner overlay as its base.  outerRet and overlayRet are what the outer and
\* the inner overlay return; outerCalls and overlayCalls count their calls.
nestedOverlayHandle(w, event, outerRet, overlayRet, baseOverlayRet, quotePaste, abbrs) ==
    LET base == widgetWithOverlayHandlerHandle(w, event, overlayRet,
                                               baseOverlayRet, quotePaste,
                                               abbrs)
    IN IF outerRet
       THEN [res |-> Result(w, TRUE, <<>>), baseCalls |-> 0,
             overlayCalls |-> 0, outerCalls |-> 1]
       ELSE [res |-> base.res, baseCalls |-> base.baseCalls,
             overlayCalls |-> 1, outerCalls |-> 1]

\* dummyHighlighter(code): the code as it is, and no errors
dummyHighlighter(code) == [text |-> code, errors |-> <<>>]

\* dummyPrompt(): nil, the empty text
dummyPrompt == <<>>

\* The rows a text of n cells takes at the given width
Rows(n, width) == (n \div width) + 1

\* widget.Render(width, height) of the code area: the prompt, the highlighted
\* code with its errors and the right prompt, at the given width, cut to
\* height rows.  hl is what w.Highlighter returns for the content, prompt and
\* rprompt what w.Prompt and w.RPrompt return.
Render(w, hl, prompt, rprompt, width, height) ==
    LET rows == Rows(Len(prompt) + Len(hl.text) + Len(hl.errors), width)
    IN [Dot |-> w.State.CodeBuffer.Dot,
        Rows |-> IF rows > height THEN height ELSE rows,
        Width |-> width,
        Prompt |-> prompt,
        Code |-> hl.text,
        Errors |-> hl.errors,
        RPrompt |-> rprompt]

\* the composite's Render: base.Render(width, height), the base being the
\* code area
widgetWithOverlayHandlerRender(w, hl, prompt, rprompt, width, height) ==
    Render(w, hl, prompt, rprompt, width, height)

\* the Render of the composite of a composite
nestedOverlayRender(w, hl, prompt, rprompt, width, height) ==
    widgetWithOverlayHandlerRender(w, hl, prompt, rprompt, width, height)

(***************************************************************************)
(* The callbacks of the Config.  A field of the Config is "nil" (absent),  *)
(* "set" (given by the caller) or "dummy" (the default that init puts in   *)
(* the place of nil).                                                      *)
(***************************************************************************)
CallbackNames ==
    {"OverlayHandler", "Highlighter", "Prompt", "RPrompt", "Abbreviations",
     "QuotePaste", "OnSubmit"}

\* Config with every callback given
AllSet == [n \in CallbackNames |-> "set"]

\* init, were it to leave a nil OnSubmit as it is
initForgetsOnSubmit(cfg) ==
    [n \in CallbackNames |->
        IF cfg[n] = "nil" /\ n # "OnSubmit" THEN "dummy" ELSE cfg[n]]

\* w.init(): every nil callback becomes its default
init(cfg) ==
    [n \in CallbackNames |-> IF cfg[n] = "nil" THEN "dummy" ELSE cfg[n]]

\* What w.OverlayHandler.Handle(event) returns: el.DummyHandler handles
\* nothing, a given handler answers o
OverlayAnswer(cfg, o) == cfg["OverlayHandler"] = "set" /\ o

\* What w.QuotePaste() returns: dummyQuotePaste returns false, a given
\* predicate answers q
QuoteAnswer(cfg, q) == cfg["QuotePaste"] = "set" /\ q

\* What w.Abbreviations enumerates: dummyAbbreviations nothing, a given
\* function the pairs given
AbbreviationsOf(cfg, given) ==
    IF cfg["Abbreviations"] = "set" THEN given ELSE << >>

\* The OnSubmit calls that reach a given callback: dummyOnSubmit does nothing
OnSubmitOf(cfg, submitted) ==
    IF cfg["OnSubmit"] = "set" THEN submitted ELSE <<>>

\* What a given highlighter returns for the code: the code, styled, and an
\* error
GivenHighlighter(code) == [text |-> code, errors |-> <<1>>]

\* What the given prompt callbacks return: ">" and "<"
GivenPrompt == <<62>>

GivenRPrompt == <<60>>

\* The callbacks that Handle(event) calls when the overlay handler returns
\* overlayRet
handleCalls(w, event, overlayRet) ==
    {"OverlayHandler"}
    \cup (IF ~overlayRet /\ event.type = "PasteSetting" /\ ~event.start
          THEN {"QuotePaste"} ELSE {})
    \cup (IF ~overlayRet /\ event.type = "KeyEvent" /\ ~w.pasting
             /\ event.key = K(Enter)
          THEN {"OnSubmit"} ELSE {})
    \cup (IF ~overlayRet /\ event.type = "KeyEvent" /\ ~w.pasting
             /\ event.key \notin {K(Enter), K(Backspace)}
             /\ ~isFuncKey(event.key) /\ IsGraphic(event.key.Rune)
          THEN {"Abbreviations"} ELSE {})

\* The callbacks that Render calls
renderCalls == {"Highlighter", "Prompt", "RPrompt"}

\* widget.Render(width, height), with the callbacks of cfg, after init
widgetRender(cfg, w, width, height) ==
    Render(w,
           IF cfg["Highlighter"] = "set"
           THEN GivenHighlighter(w.State.CodeBuffer.Content)
           ELSE dummyHighlighter(w.State.CodeBuffer.Content),
           IF cfg["Prompt"] = "set" THEN GivenPrompt ELSE dummyPrompt,
           IF cfg["RPrompt"] = "set" THEN GivenRPrompt ELSE dummyPrompt,
           width, height)

(***************************************************************************)
(* Inputs.                                                                 *)
(***************************************************************************)
\* Enumerations Config.Abbreviations may make, as sequences of <<abbr, full>>.
\* "ex" -> "example", then "x" -> "exchange"
ExThenX ==
    << <<<<101, 120>>, <<101, 120, 97, 109, 112, 108, 101>>>>,
       <<<<120>>, <<101, 120, 99, 104, 97, 110, 103, 101>>>> >>

\* the same pairs in the other order
XThenEx ==
    << <<<<120>>, <<101, 120, 99, 104, 97, 110, 103, 101>>>>,
       <<<<101, 120>>, <<101, 120, 97, 109, 112, 108, 101>>>> >>

\* "x" twice (to U+00E9, then to "e"), an empty abbreviation, a two-byte
\* abbreviation (U+00E9 -> "e") and an empty expansion ("ee" -> "")
SameAbbrTwice ==
    << <<<<120>>, <<195, 169>>>>, <<<<120>>, <<101>>>>,
       <<<<>>, <<120>>>>, <<<<195, 169>>, <<101>>>>,
       <<<<101, 101>>, <<>>>> >>

AbbrConfigs == {<< >>, ExThenX, XThenEx, SameAbbrTwice}

\* The widgets constructed: New(cfg) with each of the enumerations, and
\* NewWithState(cfg, state) with no abbreviations and the state "café"
\* (U+00E9 in two bytes) with the dot at its end
NewArgs ==
    {[State |-> [CodeBuffer |-> ZeroCodeBuffer], Abbreviations |-> a] :
        a \in AbbrConfigs}
    \cup {[State |-> [CodeBuffer |->
                        [Content |-> <<99, 97, 102, 195, 169>>, Dot |-> 5]],
           Abbreviations |-> << >>]}

\* The runes of the keys delivered during a paste, function keys apart:
\* 'e' and Enter
PasteRunes == {101, Enter}

(***************************************************************************)
(* The threads that share a widget, and its StateMutex.                    *)
(***************************************************************************)
\* "it" is the interaction thread, which calls Handle; "mu" calls
\* MutateCodeAreaState and "rd" calls CopyState.
Threads == {"it", "mu", "rd"}

\* A sync.RWMutex: w is the thread that has said it wants the write lock
\* ("none" when there is none), held whether it has it, r the number of read
\* locks of each thread.
FreeMutex == [r |-> [t \in Threads |-> 0], w |-> "none", held |-> FALSE]

\* Lock(), were it not to wait for the other writers
LockAlways(m) == TRUE

\* Lock() gets past the other writers: none holds or waits for the lock
LockReady(m) == m.w = "none"

\* Lock() returns: the readers have gone
ReadersGone(m) == \A t \in Threads : m.r[t] = 0

\* RLock, were it not to wait for anything
RLockAlways(m) == TRUE

\* RLock() returns: no writer holds or waits for the lock
RLockReady(m) == m.w = "none"

RLock(m, t) == [m EXCEPT !.r[t] = @ + 1]

RUnlock(m, t) == [m EXCEPT !.r[t] = @ - 1]

Unlock(m) == [m EXCEPT !.w = "none", !.held = FALSE]

\* What a thread is in the middle of: the mutator or the key of its call,
\* the Dot it is about to write, where it goes on from, and whether the
\* OnSubmit it has called is running or has returned.
NoCall ==
    [key |-> K(0), m |-> Mutator("", <<>>), op |-> "none", dot |-> 0,
     then |-> "idle", submit |-> "none"]

\* What the callbacks of the Config do: OnSubmit returns, or clears the
\* buffer with MutateCodeAreaState, or reads it with CopyState;
\* Abbreviations calls the visitor on its pairs, after a CopyState or not.
DefaultCallbacks == [Abbreviations |-> "visit", OnSubmit |-> "return"]

CallbackConfigs ==
    {DefaultCallbacks,
     [Abbreviations |-> "visit", OnSubmit |-> "MutateCodeAreaState"],
     [Abbreviations |-> "visit", OnSubmit |-> "CopyState"],
     [Abbreviations |-> "CopyState", OnSubmit |-> "return"]}

\* The keys and events of the interaction thread when other threads run:
\* 'x', Enter, Backspace, and the paste boundaries.
ConcEvents ==
    {KeyEvent(K(120)), KeyEvent(K(Enter)), KeyEvent(K(Backspace)),
     PasteSetting(TRUE), PasteSetting(FALSE)}

(***************************************************************************)
(* State.                                                                  *)
(***************************************************************************)
VARIABLES
    State,          \* widget.State
    inserts,        \* widget.inserts
    lastCodeBuffer, \* widget.lastCodeBuffer
    pasting,        \* widget.pasting
    pasteBuffer,    \* widget.pasteBuffer
    abbrs,          \* what Config.Abbreviations enumerates
    last,           \* the last operation: its inputs and what it returned
    pasteKeys,      \* the keys that reached the widget since the last
                    \* paste-start that did, encoded, and whether that
                    \* paste-start found the widget in Normal state
    run,            \* the graphic keys typed in a row, kept apart from the
                    \* widget's own tracking of them
    Config,         \* widget.Config: which callbacks are nil, given, default
    nilCalls,       \* the nil callbacks that have been called
    rendered,       \* what the last Render returned
    mutex,          \* widget.StateMutex
    pc,             \* where each thread is
    cur,            \* what each thread is in the middle of
    copied,         \* the State the last CopyState returned
    callbacks       \* what Config.OnSubmit and Config.Abbreviations do

vars ==
    <<State, inserts, lastCodeBuffer, pasting, pasteBuffer, abbrs, last,
      pasteKeys, run, Config, nilCalls, rendered, mutex, pc, cur, copied,
      callbacks>>

\* the fields of the widget
widgetVars == <<State, inserts, lastCodeBuffer, pasting, pasteBuffer>>

\* the variables about the callbacks of the Config as constructed
cfgVars == <<Config, nilCalls, rendered>>

\* the variables that change only when threads interleave, or when the
\* Config has callbacks that are nil
conc == <<mutex, pc, cur, copied, callbacks, cfgVars>>

\* the widget's fields as one value
W ==
    [State |-> State, inserts |-> inserts, lastCodeBuffer |-> lastCodeBuffer,
     pasteBuffer |-> pasteBuffer, pasting |-> pasting]

\* the widget's fields after the step
WNext ==
    [State |-> State', inserts |-> inserts',
     lastCodeBuffer |-> lastCodeBuffer', pasteBuffer |-> pasteBuffer',
     pasting |-> pasting']

\* the step leaves the widget as w
SetW(w) ==
    /\ State' = w.State
    /\ inserts' = w.inserts
    /\ lastCodeBuffer' = w.lastCodeBuffer
    /\ pasting' = w.pasting
    /\ pasteBuffer' = w.pasteBuffer

NoOp ==
    [ret |-> FALSE, submitted |-> <<>>, quotePaste |-> FALSE,
     event |-> OtherEvent, overlayRet |-> FALSE, baseOverlayRet |-> FALSE,
     baseCalls |-> 0, outerRet |-> FALSE, overlayCalls |-> 0,
     outerCalls |-> 0, op |-> "New", mutator |-> "",
     wasPasting |-> FALSE]

NoPaste == [keys |-> <<>>, fromNormal |-> FALSE]

\* the record of the keys of a paste, after an event that reached the widget
PasteKeysAfter(event) ==
    IF event.type = "PasteSetting"
    THEN IF event.start THEN [keys |-> <<>>, fromNormal |-> ~pasting]
         ELSE NoPaste
    ELSE IF event.type = "KeyEvent" /\ pasting /\ ~isFuncKey(event.key)
    THEN [pasteKeys EXCEPT !.keys = @ \o EncodeRune(event.key.Rune)]
    ELSE pasteKeys

\* No graphic key typed yet.  strict is the text inserted by graphic keys
\* handled one after the other with nothing at all in between; tracked is
\* the text inserted by graphic keys that reached the widget with, between
\* them, no other key and no paste boundary reaching it, no expansion, and
\* the buffer at each of them as the one before left it (buf); soft tells
\* whether the last graphic key came after more of the second than of the
\* first.
NoRun ==
    [strict |-> <<>>, tracked |-> <<>>, buf |-> ZeroCodeBuffer,
     soft |-> FALSE]

\* the tracked text that counts when the buffer is c
Tracked(c) == IF c = run.buf THEN run.tracked ELSE <<>>

\* the record after Handle(event) has left the buffer as after; took tells
\* whether an overlay handler took the event
RunAfterHandle(event, took, after) ==
    LET s == EncodeRune(event.key.Rune)
    IN IF took \/ event.type \notin {"KeyEvent", "PasteSetting"}
       THEN [run EXCEPT !.strict = <<>>, !.soft = FALSE]
       ELSE IF event.type = "PasteSetting" \/ pasting
                 \/ isFuncKey(event.key) \/ ~IsGraphic(event.key.Rune)
       THEN NoRun
       ELSE IF after # InsertAtDot(State.CodeBuffer, s)
       THEN [NoRun EXCEPT !.soft =
                Len(Tracked(State.CodeBuffer)) > Len(run.strict)]
       ELSE [strict |-> run.strict \o s,
             tracked |-> Tracked(State.CodeBuffer) \o s,
             buf |-> after,
             soft |-> Len(Tracked(State.CodeBuffer)) > Len(run.strict)]

\* the record after a MutateCodeAreaState that has left the State as after
RunAfterMutate(after) ==
    IF after = State THEN [run EXCEPT !.soft = FALSE]
    ELSE [run EXCEPT !.strict = <<>>, !.soft = FALSE]

\* Nothing rendered yet
NoRender ==
    [Dot |-> 0, Rows |-> 0, Width |-> 0, Prompt |-> <<>>,
     Code |-> <<>>, Errors |-> <<>>, RPrompt |-> <<>>]

\* New(cfg), NewWithState(cfg, state), with no call in progress
New(a, cb, config) ==
    /\ State = a.State
    /\ abbrs = a.Abbreviations
    /\ inserts = <<>>
    /\ lastCodeBuffer = ZeroCodeBuffer
    /\ pasting = FALSE
    /\ pasteBuffer = <<>>
    /\ last = NoOp
    /\ pasteKeys = NoPaste
    /\ run = NoRun
    /\ Config = config
    /\ nilCalls = {}
    /\ rendered = NoRender
    /\ mutex = FreeMutex
    /\ pc = [t \in Threads |-> "idle"]
    /\ cur = [t \in Threads |-> NoCall]
    /\ copied = a.State
    /\ callbacks = cb

Init == \E a \in NewArgs : New(a, DefaultCallbacks, AllSet)

\* The bounds of the model: a graphic key and a paste boundary are delivered
\* only while the content is short, and a key is accumulated by a paste only
\* while the accumulator is short.
WithinBounds(event) ==
    /\ (event.type = "KeyEvent" /\ ~isFuncKey(event.key) /\ pasting)
         => Len(pasteBuffer) < MaxPaste /\ event.key.Rune \in PasteRunes
    /\ (event.type = "KeyEvent" /\ ~isFuncKey(event.key) /\ ~pasting
          /\ IsGraphic(event.key.Rune))
         => Len(State.CodeBuffer.Content) < MaxLen
    /\ event.type = "PasteSetting"
         => Len(State.CodeBuffer.Content) < MaxLen

\* the record of a Handle call; wasPasting is the pasting flag before it
Handled(event, overlayRet, baseOverlayRet, quotePaste, res, baseCalls) ==
    [ret |-> res.ret, submitted |-> res.submitted, quotePaste |-> quotePaste,
     event |-> event, overlayRet |-> overlayRet,
     baseOverlayRet |-> baseOverlayRet, baseCalls |-> baseCalls, outerRet |-> FALSE,
     overlayCalls |-> 0,
     outerCalls |-> 0, op |-> "Handle", mutator |-> "",
     wasPasting |-> pasting]

\* One event handled by widget.Handle; overlayRet is the answer of the
\* widget's own overlay handler.
Deliver(event, overlayRet, quotePaste) ==
    LET r == Handle(W, event, overlayRet, quotePaste, abbrs)
    IN /\ WithinBounds(event)
       /\ SetW(r.w)
       /\ last' = Handled(event, FALSE, overlayRet, quotePaste, r, 1)
       /\ run' = RunAfterHandle(event, overlayRet, r.w.State.CodeBuffer)
       /\ pasteKeys' = IF overlayRet THEN pasteKeys ELSE PasteKeysAfter(event)
       /\ UNCHANGED <<abbrs, conc>>

\* The keys that an overlay handler may take: 'x', Enter and the function
\* key.  It may take any event that is not a key.
OverlayKeys == {K(120), K(Enter), [Rune |-> -1, Mod |-> 0]}

\* an overlay handler may take the event
Binds(event) == event.type = "KeyEvent" => event.key \in OverlayKeys

HandleKeyEvent ==
    \E k \in Keys, o \in BOOLEAN :
        /\ o => Binds(KeyEvent(k))
        /\ Deliver(KeyEvent(k), o, FALSE)

\* QuotePaste is called, and its answer matters, only at the end of a paste
\* that reaches the widget
HandlePasteSetting ==
    \E b \in BOOLEAN, o \in BOOLEAN, q \in BOOLEAN :
        /\ q => (~b /\ ~o)
        /\ Deliver(PasteSetting(b), o, q)

HandleOtherEvent ==
    \E o \in BOOLEAN : Deliver(OtherEvent, o, FALSE)

\* MutateCodeAreaState(f) called from outside the widget
Mutate ==
    \E m \in Mutators :
        /\ SetW(MutateCodeAreaState(W, m))
        /\ run' = RunAfterMutate(MutateCodeAreaState(W, m).State)
        /\ last' = [NoOp EXCEPT !.op = "MutateCodeAreaState",
                                !.mutator = m.name]
        /\ UNCHANGED <<abbrs, pasteKeys, conc>>

Next ==
    \/ HandleKeyEvent
    \/ HandlePasteSetting
    \/ HandleOtherEvent
    \/ Mutate

Spec == Init /\ [][Next]_vars

(***************************************************************************)
(* The widget under a compositor: every event is given to                  *)
(* AddOverlayHandler(widget, overlay).Handle.                              *)
(***************************************************************************)
\* The keys given to the composite: 'e', 'x', Enter, Backspace and the
\* function key
CompositeKeys ==
    {K(101), K(120), K(Enter), K(Backspace), [Rune |-> -1, Mod |-> 0]}

\* The events given to the composite
Events ==
    {KeyEvent(k) : k \in CompositeKeys}
    \cup {PasteSetting(TRUE), PasteSetting(FALSE), OtherEvent}

\* The answers of the two overlay handlers: the widget's own is asked only
\* when the compositor's has declined.
OverlayAnswers == {<<TRUE, FALSE>>, <<FALSE, TRUE>>, <<FALSE, FALSE>>}

CompositeHandle ==
    \E event \in Events, o \in OverlayAnswers :
        LET r == widgetWithOverlayHandlerHandle(W, event, o[1], o[2], FALSE,
                                                abbrs)
        IN /\ WithinBounds(event)
           /\ (o[1] \/ o[2]) => Binds(event)
           /\ SetW(r.res.w)
           /\ last' = [Handled(event, o[1], o[2], FALSE, r.res, r.baseCalls)
                          EXCEPT !.overlayCalls = 1]
           /\ run' = RunAfterHandle(event, o[1] \/ o[2],
                                    r.res.w.State.CodeBuffer)
           /\ pasteKeys' = IF o[1] \/ o[2] THEN pasteKeys
                           ELSE PasteKeysAfter(event)
           /\ UNCHANGED <<abbrs, conc>>

\* The answers of an outer overlay, an inner overlay and the widget's own
\* overlay handler, each what the handler returns if it is asked: each of
\* them takes the event, or none does, or the inner one would have taken
\* the event that the outer one takes
NestedAnswers ==
    {<<TRUE, TRUE, FALSE>>, <<TRUE, FALSE, FALSE>>, <<FALSE, TRUE, FALSE>>,
     <<FALSE, FALSE, TRUE>>, <<FALSE, FALSE, FALSE>>}

\* One event handled by the composite of the composite
NestedHandle ==
    \E event \in Events, o \in NestedAnswers :
        LET r == nestedOverlayHandle(W, event, o[1], o[2], o[3], FALSE, abbrs)
        IN /\ WithinBounds(event)
           /\ (o[1] \/ o[2] \/ o[3]) => Binds(event)
           /\ SetW(r.res.w)
           /\ last' = [Handled(event, o[2], o[3], FALSE, r.res, r.baseCalls)
                          EXCEPT !.op = "NestedHandle",
                                 !.outerRet = o[1],
                                 !.overlayCalls = r.overlayCalls,
                                 !.outerCalls = r.outerCalls]
           /\ run' = RunAfterHandle(event, r.baseCalls = 0 \/ o[3],
                                    r.res.w.State.CodeBuffer)
           /\ pasteKeys' = IF r.baseCalls = 0 \/ o[3] THEN pasteKeys
                           ELSE PasteKeysAfter(event)
           /\ UNCHANGED <<abbrs, conc>>

CompositeInit == Init /\ abbrs = SameAbbrTwice

CompositeNext == CompositeHandle \/ NestedHandle \/ Mutate

CompositeSpec == CompositeInit /\ [][CompositeNext]_vars

(***************************************************************************)
(* The widget constructed with some of the callbacks of its Config nil.    *)
(* Handle, Render and Submit each begin with init; a call of a callback    *)
(* that is still nil is recorded in nilCalls.                              *)
(***************************************************************************)
\* The Configs given to New: every subset of the callbacks left nil
Configs == [CallbackNames -> {"nil", "set"}]

\* The events given to the widget: 'x', Enter (a key of the pasted text
\* during a paste) and the paste boundaries
ConfigEvents ==
    {KeyEvent(K(120)), KeyEvent(K(Enter)), PasteSetting(TRUE),
     PasteSetting(FALSE)}

\* widget.Handle(event): o and q are the answers of a given overlay handler
\* and of a given quote predicate
ConfigHandle ==
    \E event \in ConfigEvents, o \in BOOLEAN, q \in BOOLEAN :
        LET c == init(Config)
            r == Handle(W, event, OverlayAnswer(c, o), QuoteAnswer(c, q),
                        AbbreviationsOf(c, abbrs))
            called == handleCalls(W, event, OverlayAnswer(c, o))
        IN /\ WithinBounds(event)
           /\ c["OverlayHandler"] # "set" => ~o
           /\ ("QuotePaste" \notin called \/ c["QuotePaste"] # "set") => ~q
           /\ Config' = c
           /\ nilCalls' = nilCalls \cup {n \in called : c[n] = "nil"}
           /\ SetW(r.w)
           /\ last' = [Handled(event, FALSE, OverlayAnswer(c, o),
                               QuoteAnswer(c, q), r, 1)
                          EXCEPT !.submitted = OnSubmitOf(c, r.submitted)]
           /\ run' = RunAfterHandle(event, OverlayAnswer(c, o),
                                    r.w.State.CodeBuffer)
           /\ pasteKeys' = IF OverlayAnswer(c, o) THEN pasteKeys
                           ELSE PasteKeysAfter(event)
           /\ UNCHANGED <<abbrs, rendered, mutex, pc, cur, copied, callbacks>>

\* widget.Render(width, height)
ConfigRender ==
    \E region \in {<<2, 3>>} :
        LET c == init(Config)
        IN /\ Config' = c
           /\ nilCalls' = nilCalls \cup {n \in renderCalls : c[n] = "nil"}
           /\ rendered' = widgetRender(c, W, region[1], region[2])
           /\ last' = [NoOp EXCEPT !.op = "Render"]
           /\ UNCHANGED <<widgetVars, abbrs, pasteKeys, run, mutex, pc, cur,
                          copied, callbacks>>

\* widget.Submit()
ConfigSubmit ==
    LET c == init(Config)
    IN /\ Config' = c
       /\ nilCalls' = nilCalls \cup {n \in {"OnSubmit"} : c[n] = "nil"}
       /\ last' = [NoOp EXCEPT !.op = "Submit",
                               !.submitted =
                                   OnSubmitOf(c, Submit(W))]
       /\ UNCHANGED <<widgetVars, abbrs, pasteKeys, run, rendered, mutex, pc,
                      cur, copied, callbacks>>

ConfigInit ==
    \E config \in Configs :
        New([State |-> [CodeBuffer |-> ZeroCodeBuffer],
             Abbreviations |-> SameAbbrTwice],
            DefaultCallbacks, config)

ConfigNext == ConfigHandle \/ ConfigRender \/ ConfigSubmit

ConfigSpec == ConfigInit /\ [][ConfigNext]_vars

(***************************************************************************)
(* The widget shared between threads.  The interaction thread calls Handle *)
(* event after event; another thread calls MutateCodeAreaState and a third *)
(* CopyState.  A call is a sequence of steps: the steps of the mutex, and  *)
(* between them the reads and writes of the fields.  An assignment of a    *)
(* CodeBuffer writes Content, then Dot.  What the interaction thread does  *)
(* to the fields only it uses is part of the step before or after.         *)
(***************************************************************************)
ghostVars == <<abbrs, last, pasteKeys, run, callbacks, cfgVars>>

\* thread t goes to label l
Goto(t, l) == pc' = [pc EXCEPT ![t] = l]

\* thread t returns to label l from the call it is in the middle of
Done(t, l) == Goto(t, l) /\ cur' = [cur EXCEPT ![t] = NoCall]

\* the interaction thread calls MutateCodeAreaState(m) and goes on from then
ItMutate(m, then) ==
    /\ Goto("it", "Lock")
    /\ cur' = [cur EXCEPT !["it"] =
                  [NoCall EXCEPT !.op = "mutate", !.m = m, !.then = then,
                                 !.submit = IF then = "InOnSubmit"
                                            THEN "running" ELSE "none"]]

\* Handle(event), up to its first use of the mutex; the pasted text is not
\* quoted (dummyQuotePaste)
ItHandle ==
    \E event \in ConcEvents, o \in BOOLEAN :
        /\ pc["it"] = "idle"
        /\ WithinBounds(event)
        /\ UNCHANGED <<ghostVars, mutex, copied>>
        /\ IF o THEN UNCHANGED <<widgetVars, pc, cur>>
           ELSE IF event.type = "PasteSetting" /\ event.start
           THEN /\ SetW(handlePasteSetting(W, TRUE, FALSE).w)
                /\ UNCHANGED <<pc, cur>>
           ELSE IF event.type = "PasteSetting"
           THEN /\ SetW(resetInserts(W))
                /\ ItMutate(Mutator("InsertAtDot", pasteBuffer), "endPaste")
           ELSE IF event.type # "KeyEvent"
           THEN UNCHANGED <<widgetVars, pc, cur>>
           ELSE IF pasting
           THEN /\ SetW(pasteKey(W, event.key))
                /\ UNCHANGED <<pc, cur>>
           ELSE IF event.key = K(Enter)
           THEN /\ SetW(resetInserts(W))
                /\ Goto("it", "Submit")
                /\ UNCHANGED cur
           ELSE IF event.key = K(Backspace)
           THEN /\ SetW(resetInserts(W))
                /\ ItMutate(Mutator("removeLastRune", <<>>), "idle")
           ELSE IF isFuncKey(event.key) \/ ~IsGraphic(event.key.Rune)
           THEN /\ SetW(resetInserts(W))
                /\ UNCHANGED <<pc, cur>>
           ELSE /\ Goto("it", "Lock")
                /\ cur' = [cur EXCEPT !["it"] =
                              [NoCall EXCEPT !.op = "key", !.key = event.key]]
                /\ UNCHANGED widgetVars

\* MutateCodeAreaState(m) called by the thread "mu": StateMutex.Lock() gets
\* past the other writers
MuCall ==
    \E m \in Mutators :
        /\ pc["mu"] = "idle"
        /\ LockReady(mutex)
        /\ mutex' = [mutex EXCEPT !.w = "mu"]
        /\ Goto("mu", "LockWait")
        /\ cur' = [cur EXCEPT !["mu"] =
                      [NoCall EXCEPT !.op = "mutate", !.m = m]]
        /\ UNCHANGED <<widgetVars, ghostVars, copied>>

\* StateMutex.Lock() of the interaction thread gets past the other writers
ItLock ==
    /\ pc["it"] = "Lock"
    /\ LockReady(mutex)
    /\ mutex' = [mutex EXCEPT !.w = "it"]
    /\ Goto("it", "LockWait")
    /\ UNCHANGED <<widgetVars, ghostVars, cur, copied>>

\* StateMutex.Lock() returns
LockAcquire(t) ==
    /\ pc[t] = "LockWait"
    /\ ReadersGone(mutex)
    /\ mutex' = [mutex EXCEPT !.held = TRUE]
    /\ Goto(t, "Locked")
    /\ UNCHANGED <<widgetVars, ghostVars, cur, copied>>

\* f(&w.State) writes the Content
WriteContent(t) ==
    /\ pc[t] = "Locked"
    /\ cur[t].op = "mutate"
    /\ State' = [State EXCEPT !.CodeBuffer.Content =
                    ApplyMutator(cur[t].m, State).CodeBuffer.Content]
    /\ cur' = [cur EXCEPT ![t].dot = ApplyMutator(cur[t].m, State).CodeBuffer.Dot]
    /\ Goto(t, "Wrote")
    /\ UNCHANGED <<inserts, lastCodeBuffer, pasting, pasteBuffer, ghostVars,
                   mutex, copied>>

\* The Dot is written and the deferred Unlock() runs.  In handleKeyEvent the
\* resetInserts after an expansion precedes the Unlock(), which is deferred
\* to the return of handleKeyEvent.  In handlePasteSetting the Unlock() is
\* that of MutateCodeAreaState, which returns with pasting and pasteBuffer
\* as they were: the lock is free before they are reset.
WriteDot(t) ==
    /\ pc[t] = "Wrote"
    /\ State' = [State EXCEPT !.CodeBuffer.Dot = cur[t].dot]
    /\ mutex' = Unlock(mutex)
    /\ inserts' = IF cur[t].then = "expand" THEN <<>> ELSE inserts
    /\ lastCodeBuffer' = IF cur[t].then = "expand" THEN ZeroCodeBuffer
                         ELSE lastCodeBuffer
    /\ IF cur[t].then = "InOnSubmit"
       THEN /\ Goto(t, "InOnSubmit")
            /\ cur' = [cur EXCEPT ![t] = [NoCall EXCEPT !.submit = "running"]]
       ELSE IF cur[t].then = "endPaste"
       THEN Done(t, "EndPaste")
       ELSE Done(t, "idle")
    /\ UNCHANGED <<pasting, pasteBuffer, ghostVars, copied>>

\* The end of handlePasteSetting, after MutateCodeAreaState has returned and
\* without the lock: pasting is over and the paste buffer is emptied.
ItEndPaste ==
    /\ pc["it"] = "EndPaste"
    /\ pasting' = FALSE
    /\ pasteBuffer' = <<>>
    /\ Goto("it", "idle")
    /\ UNCHANGED <<State, inserts, lastCodeBuffer, ghostVars, mutex, cur,
                   copied>>

\* The default case of handleKeyEvent, the write lock held: the key is
\* inserted, and w.Abbreviations is called.
ItInsert ==
    /\ pc["it"] = "Locked"
    /\ cur["it"].op = "key"
    /\ SetW(insertRune(W, cur["it"].key))
    /\ IF callbacks.Abbreviations = "CopyState"
       THEN /\ Goto("it", "RLock")
            /\ cur' = [cur EXCEPT !["it"].then = "Abbreviations"]
       ELSE Goto("it", "Abbreviations") /\ UNCHANGED cur
    /\ UNCHANGED <<ghostVars, mutex, copied>>

\* The visitor has seen the pairs: the Content of the expansion is written,
\* or there is none and handleKeyEvent returns.
ItAbbreviations ==
    LET chosen == visitAbbrs(abbrs, inserts, Len(abbrs))
        c == expandAbbr(W, chosen[1], chosen[2]).State.CodeBuffer
    IN /\ pc["it"] = "Abbreviations"
       /\ IF Len(chosen[1]) > 0
          THEN /\ State' = [State EXCEPT !.CodeBuffer.Content = c.Content]
               /\ cur' = [cur EXCEPT !["it"].dot = c.Dot,
                                     !["it"].then = "expand"]
               /\ Goto("it", "Wrote")
               /\ UNCHANGED mutex
          ELSE /\ mutex' = Unlock(mutex)
               /\ Done("it", "idle")
               /\ UNCHANGED State
       /\ UNCHANGED <<inserts, lastCodeBuffer, pasting, pasteBuffer, ghostVars,
                      copied>>

\* Submit: StateMutex.RLock() returns
ItSubmit ==
    /\ pc["it"] = "Submit"
    /\ RLockReady(mutex)
    /\ mutex' = RLock(mutex, "it")
    /\ Goto("it", "OnSubmit")
    /\ UNCHANGED <<widgetVars, ghostVars, cur, copied>>

\* Submit: w.OnSubmit(w.State.CodeBuffer.Content) is called, the read lock
\* held.  The callback returns at once, or first calls MutateCodeAreaState
\* or CopyState.
ItOnSubmit ==
    /\ pc["it"] = "OnSubmit"
    /\ IF callbacks.OnSubmit = "MutateCodeAreaState"
       THEN ItMutate(Mutator("clear", <<>>), "InOnSubmit")
       ELSE IF callbacks.OnSubmit = "CopyState"
       THEN /\ Goto("it", "RLock")
            /\ cur' = [cur EXCEPT !["it"].then = "InOnSubmit",
                                  !["it"].submit = "running"]
       ELSE /\ Goto("it", "InOnSubmit")
            /\ cur' = [cur EXCEPT !["it"].submit = "running"]
    /\ UNCHANGED <<widgetVars, ghostVars, mutex, copied>>

\* Submit: w.OnSubmit returns
ItOnSubmitReturn ==
    /\ pc["it"] = "InOnSubmit"
    /\ Goto("it", "SubmitReturn")
    /\ cur' = [cur EXCEPT !["it"].submit = "returned"]
    /\ UNCHANGED <<widgetVars, ghostVars, mutex, copied>>

\* Submit gets to its end: the call of OnSubmit has returned
SubmitReturns(l) == l = "SubmitReturn"

\* Submit: the deferred RUnlock(), and the return of Handle
ItSubmitReturn ==
    /\ SubmitReturns(pc["it"])
    /\ mutex' = RUnlock(mutex, "it")
    /\ Goto("it", "idle")
    /\ cur' = [cur EXCEPT !["it"].op = "none", !["it"].then = "idle"]
    /\ UNCHANGED <<widgetVars, ghostVars, copied>>

\* CopyState called by the thread "rd": StateMutex.RLock() returns
RdCall ==
    /\ pc["rd"] = "idle"
    /\ RLockReady(mutex)
    /\ mutex' = RLock(mutex, "rd")
    /\ Goto("rd", "RLocked")
    /\ UNCHANGED <<widgetVars, ghostVars, cur, copied>>

\* CopyState called by a callback: StateMutex.RLock() returns
ItRLock ==
    /\ pc["it"] = "RLock"
    /\ RLockReady(mutex)
    /\ mutex' = RLock(mutex, "it")
    /\ Goto("it", "RLocked")
    /\ UNCHANGED <<widgetVars, ghostVars, cur, copied>>

\* CopyState: the State is read
CopyStateRead(t) ==
    /\ pc[t] = "RLocked"
    /\ copied' = CopyState(W)
    /\ Goto(t, "Read")
    /\ UNCHANGED <<widgetVars, ghostVars, mutex, cur>>

\* CopyState: the deferred RUnlock(), and the return
CopyStateReturn(t) ==
    /\ pc[t] = "Read"
    /\ mutex' = RUnlock(mutex, t)
    /\ Goto(t, cur[t].then)
    /\ UNCHANGED <<widgetVars, ghostVars, cur, copied>>

ConcInit ==
    \E cb \in CallbackConfigs :
        New([State |-> [CodeBuffer |-> ZeroCodeBuffer],
             Abbreviations |-> SameAbbrTwice], cb, AllSet)

ConcNext ==
    \/ ItHandle
    \/ ItLock
    \/ ItInsert
    \/ ItAbbreviations
    \/ ItEndPaste
    \/ ItSubmit
    \/ ItOnSubmit
    \/ ItOnSubmitReturn
    \/ ItSubmitReturn
    \/ ItRLock
    \/ MuCall
    \/ RdCall
    \/ \E t \in {"it", "mu"} : LockAcquire(t)
    \/ \E t \in {"it", "mu"} : WriteContent(t)
    \/ \E t \in {"it", "mu"} : WriteDot(t)
    \/ \E t \in {"it", "rd"} : CopyStateRead(t)
    \/ \E t \in {"it", "rd"} : CopyStateReturn(t)

ConcSpec == ConcInit /\ [][ConcNext]_vars

(***************************************************************************)
(* Properties.                                                             *)
(***************************************************************************)
\* b is the well-formed UTF-8 encoding of exactly one codepoint
IsOneCodepoint(b) ==
    \/ Len(b) = 1 /\ b[1] < 128
    \/ Len(b) = 2 /\ b[1] >= 194 /\ b[1] <= 223 /\ IsCont(b[2])
    \/ /\ Len(b) = 3 /\ b[1] >= 224 /\ b[1] <= 239
       /\ IsCont(b[2]) /\ IsCont(b[3])
       /\ ~(b[1] = 224 /\ b[2] < 160) /\ ~(b[1] = 237 /\ b[2] > 159)
    \/ /\ Len(b) = 4 /\ b[1] >= 240 /\ b[1] <= 244
       /\ IsCont(b[2]) /\ IsCont(b[3]) /\ IsCont(b[4])
       /\ ~(b[1] = 240 /\ b[2] < 144) /\ ~(b[1] = 244 /\ b[2] > 143)

\* s is valid text: a sequence of well-formed encodings
RECURSIVE WellFormed(_)
WellFormed(s) ==
    \/ s = <<>>
    \/ \E n \in 1..4 :
          /\ n <= Len(s)
          /\ IsOneCodepoint(Prefix(s, n))
          /\ WellFormed(Suffix(s, n))

\* the TextBuffer invariant: the dot is within the content and on a
\* codepoint boundary of it
DotOK(c) ==
    /\ c.Dot >= 0 /\ c.Dot <= Len(c.Content)
    /\ WellFormed(Prefix(c.Content, c.Dot))
    /\ WellFormed(Suffix(c.Content, c.Dot))

\* the step is Handle(event), and neither overlay handler took the event
ByWidget(event) ==
    /\ last'.op = "Handle"
    /\ last'.event = event
    /\ ~last'.overlayRet
    /\ ~last'.baseOverlayRet

\* the step is the widget's handling of a graphic key in Normal state
GraphicStep(k) ==
    /\ ByWidget(KeyEvent(k))
    /\ ~pasting
    /\ ~isFuncKey(k)
    /\ IsGraphic(k.Rune)

\* the consecutively inserted text, the key k being typed included
Typed(k) ==
    (IF lastCodeBuffer = State.CodeBuffer THEN inserts ELSE <<>>)
        \o EncodeRune(k.Rune)

\* the enumerated pairs whose abbr is a non-empty trailing substring of t
Matching(t) ==
    {i \in 1..Len(abbrs) : abbrs[i][1] # <<>> /\ HasSuffix(t, abbrs[i][1])}

\* among them, the first enumerated of those with the longest abbr
Longest(t) ==
    CHOOSE i \in Matching(t) :
        \A j \in Matching(t) :
            \/ Len(abbrs[j][1]) < Len(abbrs[i][1])
            \/ Len(abbrs[j][1]) = Len(abbrs[i][1]) /\ i <= j

\* C1: after any sequence of Handle events (and of MutateCodeAreaState calls
\* with mutators that keep it), the dot is within the content and on a
\* codepoint boundary.
C1_DotInvariant == DotOK(State.CodeBuffer)

\* U+00E9 has been typed in front of text: the dot is after its two bytes
C1_Witness ==
    /\ last.op = "Handle" /\ last.event = KeyEvent(K(233))
    /\ ~last.overlayRet /\ ~last.baseOverlayRet
    /\ State.CodeBuffer.Dot = 2
    /\ Len(State.CodeBuffer.Content) = 3
    /\ inserts = <<195, 169>>

\* C2: a graphic key handled in Normal state expands the pair with the longest
\* abbr among those whose non-empty abbr ends the consecutively inserted
\* text, the first enumerated among several of that length, and expands
\* nothing when no pair matches.
C2_LongestFirstAbbr ==
    [][\A k \in Keys :
          GraphicStep(k) =>
             LET t == Typed(k)
                 c1 == InsertAtDot(State.CodeBuffer, EncodeRune(k.Rune))
             IN IF Matching(t) = {}
                THEN State'.CodeBuffer = c1
                ELSE LET pair == abbrs[Longest(t)]
                     IN State'.CodeBuffer =
                          [Content |-> Prefix(c1.Content, c1.Dot - Len(pair[1]))
                                         \o pair[2]
                                         \o Suffix(c1.Content, c1.Dot),
                           Dot |-> c1.Dot - Len(pair[1]) + Len(pair[2])]]_vars

\* 'e' then 'x' typed into the empty buffer, "x" -> "exchange" enumerated
\* before "ex" -> "example": the content is "example" and the dot 7
C2_Witness ==
    /\ abbrs = XThenEx
    /\ last.op = "Handle" /\ last.event = KeyEvent(K(120))
    /\ ~last.overlayRet /\ ~last.baseOverlayRet
    /\ State.CodeBuffer =
         [Content |-> <<101, 120, 97, 109, 112, 108, 101>>, Dot |-> 7]

\* C3: when a graphic key makes an abbreviation match, the buffer becomes the
\* content before the typed abbr, the expansion, and the content that was
\* after the dot, with the dot just after the expansion; the insertion
\* tracking is reset, so that the expansion is no part of the text a later key
\* is matched against.
C3_ExpansionResult ==
    [][\A k \in Keys :
          (GraphicStep(k) /\ Matching(Typed(k)) # {}) =>
             \E i \in Matching(Typed(k)) :
                LET c == State.CodeBuffer
                    from == c.Dot + Len(EncodeRune(k.Rune)) - Len(abbrs[i][1])
                IN /\ from >= 0 /\ from <= c.Dot
                   /\ State'.CodeBuffer.Content =
                        Prefix(c.Content, from) \o abbrs[i][2]
                           \o Suffix(c.Content, c.Dot)
                   /\ State'.CodeBuffer.Dot = from + Len(abbrs[i][2])
                   /\ inserts' = <<>>
                   /\ lastCodeBuffer' = ZeroCodeBuffer
                   /\ last'.ret]_vars

\* 'x' typed in front of "e" and expanded to "exchange": the "e" that was
\* after the dot still is
C3_Witness ==
    /\ last.op = "Handle" /\ last.event = KeyEvent(K(120))
    /\ ~last.overlayRet /\ ~last.baseOverlayRet
    /\ State.CodeBuffer =
         [Content |-> <<101, 120, 99, 104, 97, 110, 103, 101, 101>>, Dot |-> 8]
    /\ inserts = <<>>

\* what a paste leaves: the buffer is unchanged by paste-start and by each
\* key of the paste, and paste-end inserts at the dot the keys received since
\* the paste-start (quoted if and only if QuotePaste returns true) and leaves
\* the widget in Normal state with an empty accumulator.  The statement is
\* about every paste (anyStart), or about those whose paste-start was received
\* in Normal state.
PasteInsertsItsKeys(anyStart) ==
    /\ \A b \in BOOLEAN :
          (ByWidget(PasteSetting(b)) /\ b) => (State' = State /\ pasting')
    /\ \A k \in Keys :
          (ByWidget(KeyEvent(k)) /\ pasting /\ ~isFuncKey(k))
             => (State' = State /\ pasting')
    /\ (ByWidget(PasteSetting(FALSE)) /\ pasting
          /\ (anyStart \/ pasteKeys.fromNormal)) =>
          /\ State'.CodeBuffer =
               InsertAtDot(State.CodeBuffer,
                           IF last'.quotePaste THEN Quote(pasteKeys.keys)
                           ELSE pasteKeys.keys)
          /\ ~pasting'
          /\ pasteBuffer' = <<>>
          /\ last'.ret

\* C4, as claimed: for every sequence paste-start, k1..kn, paste-end, the
\* text inserted at paste-end is k1..kn.
C4_AsClaimed == [][PasteInsertsItsKeys(TRUE)]_vars

\* C4, amended: so it is when the paste-start is received in Normal state.
C4_PasteFromNormal == [][PasteInsertsItsKeys(FALSE)]_vars

\* 'e', 'e' pasted into the empty buffer and quoted: the content is 'ee' in
\* single quotes, the widget is in Normal state, the accumulator is empty
C4_Witness ==
    /\ last.op = "Handle" /\ last.event = PasteSetting(FALSE)
    /\ ~last.overlayRet /\ ~last.baseOverlayRet /\ last.quotePaste
    /\ State.CodeBuffer = [Content |-> <<39, 101, 101, 39>>, Dot |-> 4]
    /\ ~pasting /\ pasteBuffer = <<>>

\* C5: Enter handled in Normal state calls OnSubmit once, with the content of
\* the buffer, returns true, stays in Normal state and leaves the buffer as
\* it is.
C5_EnterSubmits ==
    [][(ByWidget(KeyEvent(K(Enter))) /\ ~pasting) =>
          /\ last'.submitted = <<State.CodeBuffer.Content>>
          /\ last'.ret
          /\ ~pasting'
          /\ State' = State]_vars

\* Enter with the dot in front of "café": all of it was submitted
C5_Witness ==
    /\ last.op = "Handle" /\ last.event = KeyEvent(K(Enter))
    /\ ~last.overlayRet /\ ~last.baseOverlayRet
    /\ ~pasting
    /\ State.CodeBuffer = [Content |-> <<99, 97, 102, 195, 169>>, Dot |-> 0]
    /\ last.submitted = << <<99, 97, 102, 195, 169>> >>

\* C6: the composite asks the overlay first; when the overlay handles the
\* event the composite returns true and base.Handle is not called, so the
\* base is as it was; otherwise base.Handle is called once and the composite
\* returns what it returns.
C6_OverlayPrecedence ==
    [][last'.op = "Handle" =>
          LET base == Handle(W, last'.event, last'.baseOverlayRet,
                             last'.quotePaste, abbrs)
          IN IF last'.overlayRet
             THEN last'.ret /\ last'.baseCalls = 0 /\ WNext = W
             ELSE /\ last'.baseCalls = 1
                  /\ last'.ret = base.ret
                  /\ WNext = base.w]_vars

\* the overlay took a function key, which the base returns false for and
\* resets its insertion tracking on: the tracking is as it was
C6_Witness ==
    /\ last.op = "Handle" /\ last.event = KeyEvent([Rune |-> -1, Mod |-> 0])
    /\ last.overlayRet /\ last.ret /\ last.baseCalls = 0
    /\ inserts # <<>>

\* C7: when the widget's own overlay handler handles an event, in Normal or
\* in Pasting state, Handle returns true, the buffer, the state, the paste
\* accumulator and the insertion tracking are as they were, and OnSubmit is
\* not called.
C7_OwnOverlayFirst ==
    [][(last'.op = "Handle" /\ ~last'.overlayRet /\ last'.baseOverlayRet) =>
          /\ last'.ret
          /\ WNext = W
          /\ last'.submitted = <<>>]_vars

\* the widget's overlay took Enter after a key was typed: nothing was
\* submitted and the insertion tracking is as it was
C7_Witness ==
    /\ last.op = "Handle" /\ last.event = KeyEvent(K(Enter))
    /\ ~last.overlayRet /\ last.baseOverlayRet /\ last.ret
    /\ last.submitted = <<>>
    /\ inserts # <<>>
    /\ ~pasting

\* C8: Backspace handled in Normal state removes the whole codepoint that
\* ends at the dot and moves the dot back by the length of its encoding; with
\* the dot at 0 the buffer is unchanged.  Handle returns true and the
\* insertion tracking is reset.  ("café", 5) becomes ("caf", 3).
C8_BackspaceOneCodepoint ==
    [][(ByWidget(KeyEvent(K(Backspace))) /\ ~pasting) =>
          LET c == State.CodeBuffer
          IN /\ IF c.Dot = 0 THEN State' = State
                ELSE \E n \in 1..4 :
                        /\ n <= c.Dot
                        /\ IsOneCodepoint(SubSeq(c.Content, c.Dot - n + 1, c.Dot))
                        /\ State'.CodeBuffer =
                             [Content |-> Prefix(c.Content, c.Dot - n)
                                            \o Suffix(c.Content, c.Dot),
                              Dot |-> c.Dot - n]
             /\ c = [Content |-> <<99, 97, 102, 195, 169>>, Dot |-> 5]
                  => State'.CodeBuffer =
                       [Content |-> <<99, 97, 102>>, Dot |-> 3]
             /\ last'.ret
             /\ inserts' = <<>>
             /\ lastCodeBuffer' = ZeroCodeBuffer]_vars

\* Backspace after "café": the content is "caf" and the dot 3
C8_Witness ==
    /\ last.op = "Handle" /\ last.event = KeyEvent(K(Backspace))
    /\ ~last.overlayRet /\ ~last.baseOverlayRet
    /\ State.CodeBuffer = [Content |-> <<99, 97, 102>>, Dot |-> 3]
    /\ abbrs = << >>

\* The threads that thread t waits for: the writer that is ahead of it, or
\* the readers that have not gone.
WaitsOn(t) ==
    IF pc[t] \in {"Lock", "RLock", "Submit"} THEN {mutex.w} \ {"none"}
    ELSE IF pc[t] = "LockWait" THEN {u \in Threads : mutex.r[u] > 0}
    ELSE {}

\* The interaction thread waits for itself, or for a thread that waits for
\* it: its Handle call cannot return.
ItStuck ==
    \/ "it" \in WaitsOn("it")
    \/ \E u \in WaitsOn("it") : "it" \in WaitsOn(u)

\* C9: every State that CopyState returns, whatever the interleaving of
\* Handle, MutateCodeAreaState and CopyState calls, has its dot within the
\* content and on a codepoint boundary: no CopyState sees a mutation that is
\* partly applied.
C9_CopyStateConsistent == DotOK(copied.CodeBuffer)

\* CopyState has read a buffer that is not empty while a clear waits for the
\* write lock and the interaction thread, in a Handle call, waits behind it
C9_Witness ==
    /\ pc["rd"] = "Read"
    /\ copied = State
    /\ copied.CodeBuffer.Content # <<>>
    /\ pc["mu"] = "LockWait" /\ cur["mu"].m.name = "clear"
    /\ pc["it"] = "Lock"

\* C10: Handle never waits forever on the state lock: a Handle call is
\* never in a state where it waits for a lock that cannot be released before
\* it returns, whatever the callbacks do, when OnSubmit calls
\* MutateCodeAreaState or a callback calls CopyState in particular.
C10_HandleNeverWaitsForever == ~ItStuck

\* C11: Handle does not await the submit callback: while the OnSubmit that
\* a Handle of Enter has called is running, Handle can return.
C11_HandleDoesNotAwaitOnSubmit ==
    cur["it"].submit = "running" => ENABLED ItSubmitReturn

\* An abbreviation is expanded only when all its characters are the end of
\* the keys typed in a row: of those typed with nothing at all in between
\* (strictly), or of those the record tracks.  The buffer a graphic key
\* leaves is then the typed key inserted, or that with one of the matching
\* abbreviations replaced.
ExpandsOnlyFrom(strictly) ==
    \A k \in Keys :
        LET s == EncodeRune(k.Rune)
            c1 == InsertAtDot(State.CodeBuffer, s)
            text == (IF strictly THEN run.strict
                     ELSE Tracked(State.CodeBuffer)) \o s
        IN (GraphicStep(k) /\ State'.CodeBuffer # c1) =>
              \E i \in 1..Len(abbrs) :
                 /\ abbrs[i][1] # <<>>
                 /\ HasSuffix(text, abbrs[i][1])
                 /\ State'.CodeBuffer =
                      [Content |-> Prefix(c1.Content, c1.Dot - Len(abbrs[i][1]))
                                     \o abbrs[i][2]
                                     \o Suffix(c1.Content, c1.Dot),
                       Dot |-> c1.Dot - Len(abbrs[i][1]) + Len(abbrs[i][2])]

\* C12, as claimed: an abbreviation is expanded only when all its characters
\* were inserted by consecutive graphic-key Handle events with nothing in
\* between: no event an overlay handler took, no change of the buffer by
\* MutateCodeAreaState, be it undone afterwards.
C12_AsClaimed == [][ExpandsOnlyFrom(TRUE)]_vars

\* C12, amended: an abbreviation is expanded only when all its characters
\* were inserted by graphic keys that reached the widget with, between them,
\* no other key and no paste boundary reaching it, no expansion, and the
\* buffer at each of them as the one before left it; and the text the widget
\* matches the next graphic key against is always the text so typed.
C12_TrackedRun ==
    [][/\ ExpandsOnlyFrom(FALSE)
       /\ (IF lastCodeBuffer' = State'.CodeBuffer THEN inserts' ELSE <<>>)
             = (IF run'.buf = State'.CodeBuffer THEN run'.tracked ELSE <<>>)]_vars

\* 'e' typed, the dot moved away and back or an event taken by the overlay
\* handler, 'x' typed: "ex" has been expanded to "example"
C12_Witness ==
    /\ abbrs = ExThenX
    /\ last.op = "Handle" /\ last.event = KeyEvent(K(120))
    /\ ~last.overlayRet /\ ~last.baseOverlayRet
    /\ run.soft
    /\ State.CodeBuffer =
         [Content |-> <<101, 120, 97, 109, 112, 108, 101>>, Dot |-> 7]

\* C13: in Normal state, a function key or a codepoint that is not graphic,
\* unmodified Enter and Backspace apart, that the overlay handler has not
\* taken: Handle returns false and resets the insertion tracking; the
\* buffer, the Normal state and the paste accumulator are as they were, and
\* nothing is submitted.
C13_UnhandledKey ==
    [][\A k \in Keys :
          (/\ ByWidget(KeyEvent(k))
           /\ ~pasting
           /\ isFuncKey(k) \/ ~IsGraphic(k.Rune)
           /\ k \notin {K(Enter), K(Backspace)}) =>
              /\ ~last'.ret
              /\ inserts' = <<>>
              /\ lastCodeBuffer' = ZeroCodeBuffer
              /\ State' = State
              /\ ~pasting'
              /\ pasteBuffer' = pasteBuffer
              /\ last'.submitted = <<>>]_vars

\* a modified Enter after a typed key: not handled, nothing submitted, the
\* typed key still in the buffer and no longer tracked
C13_Witness ==
    /\ last.op = "Handle" /\ last.event = KeyEvent([Rune |-> Enter, Mod |-> 1])
    /\ ~last.overlayRet /\ ~last.baseOverlayRet
    /\ ~last.ret
    /\ ~pasting
    /\ State.CodeBuffer = [Content |-> <<101>>, Dot |-> 1]
    /\ inserts = <<>> /\ lastCodeBuffer = ZeroCodeBuffer

\* C14: in Pasting state, a function key that the overlay handler has not
\* taken is dropped: Handle returns true and the widget, its paste
\* accumulator, buffer and insertion tracking included, is as it was.  So the
\* text that paste-end inserts ends with the other keys received since the
\* paste-start, in their order, and is those keys when the paste-start was
\* received in Normal state.
C14_FunctionKeyDropped ==
    [][/\ \A k \in Keys :
             (ByWidget(KeyEvent(k)) /\ pasting /\ isFuncKey(k)) =>
                 /\ last'.ret
                 /\ WNext = W
                 /\ last'.submitted = <<>>
       /\ (ByWidget(PasteSetting(FALSE)) /\ pasting) =>
             \E n \in 0..Len(pasteBuffer) :
                LET text == Prefix(pasteBuffer, n) \o pasteKeys.keys
                IN /\ pasteKeys.fromNormal => n = 0
                   /\ State'.CodeBuffer =
                        InsertAtDot(State.CodeBuffer,
                                    IF last'.quotePaste THEN Quote(text)
                                    ELSE text)]_vars

\* a modified Enter received in a paste after an 'e': it is handled, the
\* accumulator holds the 'e' and nothing else, the buffer is empty
C14_Witness ==
    /\ last.op = "Handle" /\ last.event = KeyEvent([Rune |-> Enter, Mod |-> 1])
    /\ ~last.overlayRet /\ ~last.baseOverlayRet
    /\ last.ret
    /\ pasting
    /\ pasteBuffer = <<101>>
    /\ pasteKeys.keys = <<101>>
    /\ State.CodeBuffer = ZeroCodeBuffer

\* The widths and heights of the regions rendered onto
Regions == {<<1, 1>>, <<2, 3>>}

\* C15: the composite of a composite gives an event to the outer overlay,
\* then to the inner one, then to the base, stops at the first that handles
\* it and returns true if and only if one of them did; the result and the
\* handlers called are those of one composite whose overlay asks the outer
\* one and then the inner one; and its Render returns what the base's Render
\* returns.
C15_NestedOverlays ==
    [][last'.op = "NestedHandle" =>
          LET base == Handle(W, last'.event, last'.baseOverlayRet,
                             last'.quotePaste, abbrs)
              once == widgetWithOverlayHandlerHandle(
                          W, last'.event, last'.outerRet \/ last'.overlayRet,
                          last'.baseOverlayRet, last'.quotePaste, abbrs)
          IN /\ last'.outerCalls = 1
             /\ last'.overlayCalls = IF last'.outerRet THEN 0 ELSE 1
             /\ last'.baseCalls =
                   IF last'.outerRet \/ last'.overlayRet THEN 0 ELSE 1
             /\ IF last'.outerRet \/ last'.overlayRet
                THEN last'.ret /\ WNext = W
                ELSE last'.ret = base.ret /\ WNext = base.w
             /\ last'.ret = once.res.ret
             /\ WNext = once.res.w
             /\ last'.baseCalls = once.baseCalls
             /\ \A g \in Regions :
                   nestedOverlayRender(WNext, dummyHighlighter(
                                           State'.CodeBuffer.Content),
                                       dummyPrompt, dummyPrompt, g[1], g[2])
                     = Render(WNext, dummyHighlighter(State'.CodeBuffer.Content),
                              dummyPrompt, dummyPrompt, g[1], g[2])]_vars

\* the inner overlay would have taken Enter, the outer one took it: the
\* inner one and the base were not called, and nothing was submitted
C15_Witness ==
    /\ last.op = "NestedHandle" /\ last.event = KeyEvent(K(Enter))
    /\ last.outerRet /\ last.overlayRet
    /\ last.ret
    /\ last.outerCalls = 1 /\ last.overlayCalls = 0 /\ last.baseCalls = 0
    /\ last.submitted = <<>>
    /\ State.CodeBuffer.Content # <<>>


\* C16: a callback left nil in the Config behaves as its default in Handle,
\* Render and Submit.  No nil callback is ever called, every callback is
\* non-nil after the first operation, and with the callback absent: the
\* overlay handler takes no event, the highlighter returns the code with no
\* errors, the prompts are empty, no abbreviation is expanded, a paste is
\* inserted unquoted, and a submission calls nothing of the caller's.
Absent(n) == Config[n] # "set"

AbsentAsDefault ==
    LET event == last'.event
        key == event.key
        byWidget == last'.op = "Handle" /\ ~last'.baseOverlayRet
    IN /\ \A n \in CallbackNames : Config'[n] # "nil"
       /\ \A n \in CallbackNames : Config[n] = "set" => Config'[n] = "set"
       /\ (last'.op = "Handle" /\ Absent("OverlayHandler")) =>
             /\ ~last'.baseOverlayRet
             /\ event = PasteSetting(TRUE) => pasting'
             /\ (event = KeyEvent(K(Enter)) /\ ~pasting) => last'.ret
       /\ (byWidget /\ Absent("Abbreviations") /\ event.type = "KeyEvent"
             /\ ~pasting /\ key # K(Enter)) =>
             State'.CodeBuffer =
                 InsertAtDot(State.CodeBuffer, EncodeRune(key.Rune))
       /\ (byWidget /\ Absent("QuotePaste")
             /\ event = PasteSetting(FALSE)) =>
             State'.CodeBuffer = InsertAtDot(State.CodeBuffer, pasteBuffer)
       /\ (byWidget /\ event = KeyEvent(K(Enter)) /\ ~pasting) =>
             /\ State' = State
             /\ last'.submitted =
                    IF Absent("OnSubmit") THEN <<>>
                    ELSE <<State.CodeBuffer.Content>>
       /\ last'.op = "Submit" =>
             /\ WNext = W
             /\ last'.submitted =
                    IF Absent("OnSubmit") THEN <<>>
                    ELSE <<State.CodeBuffer.Content>>
       /\ last'.op = "Render" =>
             /\ WNext = W
             /\ rendered'.Dot = State.CodeBuffer.Dot
             /\ Absent("Highlighter") =>
                   /\ rendered'.Code = State.CodeBuffer.Content
                   /\ rendered'.Errors = <<>>
             /\ Absent("Prompt") => rendered'.Prompt = <<>>
             /\ Absent("RPrompt") => rendered'.RPrompt = <<>>

C16_AbsentCallbacks == [](nilCalls = {}) /\ [][AbsentAsDefault]_vars

\* "x" was typed and Enter pressed with the abbreviations ("x" for U+00E9)
\* and the submit callback left nil, and the widget has been rendered since
\* with the highlighter left nil
C16_Witness ==
    /\ last.op = "Render"
    /\ Config["Abbreviations"] = "dummy"
    /\ Config["OnSubmit"] = "dummy"
    /\ Config["Highlighter"] = "dummy"
    /\ Config["Prompt"] = "set"
    /\ State.CodeBuffer = [Content |-> <<120>>, Dot |-> 1]
    /\ inserts = <<>>
    /\ rendered.Code = <<120>>
    /\ rendered.Prompt = GivenPrompt

\* C17: the insertion of a typed graphic character and the expansion it
\* triggers are one step with respect to the StateMutex.  From the insertion
\* of the last character of an abbreviation to the end of the write of its
\* expansion the interaction thread holds the write lock, no other thread
\* holds a read lock or is inside a mutator, no CopyState returns anything
\* new, and the State is changed by the expansion only.
Expanding ==
    \/ /\ \/ pc["it"] = "Abbreviations"
          \/ pc["it"] = "RLock" /\ cur["it"].then = "Abbreviations"
       /\ Len(visitAbbrs(abbrs, inserts, Len(abbrs))[1]) > 0
    \/ /\ pc["it"] = "Wrote"
       /\ cur["it"].then = "expand"

ExpansionSteps ==
    Expanding =>
        /\ copied' = copied
        /\ pc'["mu"] = pc["mu"]
        /\ State' # State => pc'["it"] # pc["it"]
        /\ pc'["it"] = "idle" =>
              /\ pc["it"] = "Wrote"
              /\ State'.CodeBuffer.Dot = cur["it"].dot
              /\ inserts' = <<>>

C17_InsertAndExpandAtomic ==
    /\ [](Expanding =>
            /\ mutex.w = "it"
            /\ mutex.held
            /\ mutex.r["rd"] = 0
            /\ mutex.r["mu"] = 0
            /\ pc["rd"] \notin {"RLocked", "Read"}
            /\ pc["mu"] \notin {"LockWait", "Locked", "Wrote"})
    /\ [][ExpansionSteps]_vars

\* 'x', an abbreviation, has just been inserted and not yet expanded, after
\* an earlier expansion that another thread has copied and a third cleared
C17_Witness ==
    /\ pc["it"] = "Abbreviations"
    /\ inserts = <<120>>
    /\ Len(visitAbbrs(abbrs, inserts, Len(abbrs))[1]) > 0
    /\ State.CodeBuffer = [Content |-> <<120>>, Dot |-> 1]
    /\ copied.CodeBuffer = [Content |-> <<195, 169>>, Dot |-> 2]

\* C18: just after a graphic key has been inserted, and before the
\* abbreviations are looked at, the consecutively inserted text ends the
\* content before the dot; so the abbreviation chosen, if there is one, is
\* no longer than the dot, the range it is replaced in lies inside the
\* buffer and holds the abbreviation, and the dot is inside the content
\* after the step.  Without an expansion the inserted text still ends the
\* content before the dot after the step.
InsertedEndsBeforeDot(k) ==
    LET w2 == insertRune(W, k)
        c == w2.State.CodeBuffer
        chosen == visitAbbrs(abbrs, w2.inserts, Len(abbrs))
        abbr == chosen[1]
    IN /\ c.Dot >= 0 /\ c.Dot <= Len(c.Content)
       /\ HasSuffix(Prefix(c.Content, c.Dot), w2.inserts)
       /\ HasSuffix(w2.inserts, EncodeRune(k.Rune))
       /\ IF Len(abbr) > 0
          THEN /\ Len(abbr) <= c.Dot
               /\ SubSeq(c.Content, c.Dot - Len(abbr) + 1, c.Dot) = abbr
               /\ Len(State'.CodeBuffer.Content) =
                      Len(c.Content) - Len(abbr) + Len(chosen[2])
               /\ State'.CodeBuffer.Dot = c.Dot - Len(abbr) + Len(chosen[2])
          ELSE /\ State'.CodeBuffer = c
               /\ inserts' = w2.inserts
               /\ HasSuffix(Prefix(State'.CodeBuffer.Content,
                                   State'.CodeBuffer.Dot), inserts')
       /\ State'.CodeBuffer.Dot >= 0
       /\ State'.CodeBuffer.Dot <= Len(State'.CodeBuffer.Content)

C18_InsertsEndContentBeforeDot ==
    [][\A k \in Keys : GraphicStep(k) => InsertedEndsBeforeDot(k)]_vars

\* With "x" for "exchange": 'e' was typed, the dot moved to the start by
\* MutateCodeAreaState, and 'x' typed in front of the 'e' and expanded there
C18_Witness ==
    /\ last.op = "Handle"
    /\ last.event = KeyEvent(K(120))
    /\ ~last.baseOverlayRet
    /\ State.CodeBuffer =
           [Content |-> <<101, 120, 99, 104, 97, 110, 103, 101, 101>>,
            Dot |-> 8]
    /\ inserts = <<>>

\* the step is a paste-end that the widget handles in Normal state
PasteEndInNormal == ByWidget(PasteSetting(FALSE)) /\ ~pasting

\* C19 as claimed: a paste-end received in Normal state leaves the content
\* and the dot unchanged, for either value of the quoting predicate.
C19_AsClaimed ==
    [][PasteEndInNormal => State'.CodeBuffer = State.CodeBuffer]_vars

\* C19: the paste accumulator is empty in every Normal state, and a
\* paste-end received in Normal state leaves the content and the dot
\* unchanged when the quoting predicate returns false; when it returns true
\* the quotation of the empty text, two single quotes, is inserted at the
\* dot and the dot is moved past it.  The widget stays in Normal state with
\* an empty accumulator and nothing tracked.
C19_PasteEndInNormal ==
    /\ [](~pasting => pasteBuffer = <<>>)
    /\ [][PasteEndInNormal =>
            /\ last'.ret
            /\ ~pasting' /\ pasteBuffer' = <<>> /\ inserts' = <<>>
            /\ State'.CodeBuffer =
                   IF last'.quotePaste
                   THEN [Content |->
                             Prefix(State.CodeBuffer.Content,
                                    State.CodeBuffer.Dot)
                             \o <<39, 39>>
                             \o Suffix(State.CodeBuffer.Content,
                                       State.CodeBuffer.Dot),
                         Dot |-> State.CodeBuffer.Dot + 2]
                   ELSE State.CodeBuffer]_vars

\* 'e' was typed, and a paste-end received in Normal state with the quoting
\* predicate true
C19_Witness ==
    /\ last.op = "Handle"
    /\ last.event = PasteSetting(FALSE)
    /\ ~last.baseOverlayRet
    /\ ~last.wasPasting
    /\ last.quotePaste
    /\ State.CodeBuffer = [Content |-> <<101, 39, 39>>, Dot |-> 3]

\* C20: text entered through a bracketed paste takes no part in the
\* expansion of abbreviations.  Nothing is tracked while the widget is in
\* Pasting state, and a key received then changes neither the tracked text
\* nor the buffer.  The end of a paste inserts the accumulated text as it is
\* (quoted if the predicate says so), whatever abbreviation it ends with,
\* and leaves nothing tracked, so that the keys typed afterwards are matched
\* against themselves only: the graphic key typed next is expanded only if
\* an abbreviation ends that key alone.
PasteNotTyped ==
    /\ (last'.op = "Handle" /\ last'.event.type = "KeyEvent"
          /\ ~last'.overlayRet /\ ~last'.baseOverlayRet /\ pasting) =>
          /\ inserts' = <<>>
          /\ lastCodeBuffer' = lastCodeBuffer
          /\ State' = State
    /\ ByWidget(PasteSetting(FALSE)) =>
          /\ State'.CodeBuffer =
                 InsertAtDot(State.CodeBuffer,
                             IF last'.quotePaste
                             THEN <<39>> \o pasteBuffer \o <<39>>
                             ELSE pasteBuffer)
          /\ inserts' = <<>>
          /\ lastCodeBuffer' = ZeroCodeBuffer
    /\ (last.op = "Handle" /\ last.event.type = "PasteSetting"
          /\ ~last.overlayRet /\ ~last.baseOverlayRet) =>
       \A k \in Keys :
          LET s == EncodeRune(k.Rune)
              c1 == InsertAtDot(State.CodeBuffer, s)
          IN (GraphicStep(k) /\ State'.CodeBuffer # c1) =>
                \E i \in 1..Len(abbrs) :
                   /\ abbrs[i][1] # <<>>
                   /\ HasSuffix(s, abbrs[i][1])
                   /\ State'.CodeBuffer =
                        [Content |->
                             Prefix(c1.Content, c1.Dot - Len(abbrs[i][1]))
                             \o abbrs[i][2] \o Suffix(c1.Content, c1.Dot),
                         Dot |-> c1.Dot - Len(abbrs[i][1]) + Len(abbrs[i][2])]

C20_PastedTextNotExpanded ==
    /\ [](pasting => inserts = <<>>)
    /\ [][PasteNotTyped]_vars

\* With "ee" for "" among the abbreviations: 'e' and 'e' have been pasted,
\* and the paste has ended with "ee" in the buffer
C20_Witness ==
    /\ abbrs = SameAbbrTwice
    /\ last.op = "Handle"
    /\ last.event = PasteSetting(FALSE)
    /\ ~last.overlayRet /\ ~last.baseOverlayRet
    /\ last.wasPasting
    /\ ~last.quotePaste
    /\ State.CodeBuffer = [Content |-> <<101, 101>>, Dot |-> 2]
    /\ inserts = <<>>

====
